---- MODULE Spec2Model ----
(***************************************************************************)
(* Sentiment / next-trading-day alignment pipeline.                        *)
(*                                                                         *)
(* Tables are sequences of records, one record per row, fields named as    *)
(* the data-frame columns.  A missing value (NaN, NaT, None) is Null.      *)
(* Floating-point numbers are exact rationals <<numerator, denominator>>;  *)
(* a zero denominator is IEEE's inf (numerator +-1) or NaN (numerator 0).  *)
(* One sector column, XLE, stands for each of the five tickers, which the  *)
(* code treats independently and identically.                              *)
(***************************************************************************)
EXTENDS Integers, Sequences, FiniteSets, TLC

VARIABLES
    pc,             \* which program has run on the inputs
    raw,            \* raw price CSV rows [Date, Price], in file order
    news,           \* headline table, one row per headline
    min_headlines,  \* the suppression threshold passed to the aggregators
    etf,            \* <TICKER>_preprocessed.csv written by preprocess_file
    prices,         \* the table add_next_day_cols_FIXED returns
    daily,          \* the table compute_sector_daily returns
    merged_daily,   \* prices outer-joined with daily (build_all_sector_datasets)
    data,           \* headline-level output file of build_all_sector_datasets
    news_td,        \* headline table with its TradingDate column (v3, v4)
    out,            \* output file of an etf_transformations aggregator
    lag_values,     \* df[col] handed to add_weighted_lag_feature
    lag_weights,    \* weights handed to add_weighted_lag_feature
    lag_result,     \* df[new_col_name] written by add_weighted_lag_feature
    caller_df,      \* the table a caller passed to a stage, after the call
    returned,       \* the table that call returned
    report,         \* what comprehensive_verification printed
    results         \* results[ticker] of verify_all_tickers

vars == <<pc, raw, news, min_headlines, etf, prices, daily, merged_daily, data,
          news_td, out, lag_values, lag_weights, lag_result, caller_df, returned,
          report, results>>

(***************************************************************************)
(* Bounds of the model and sample values of the inputs.                    *)
(***************************************************************************)
MaxDate == 3
MaxRows == 3
MaxVerifiedRows == 2
MaxHeadlines == 2
MaxMinHeadlines == 2
MaxLen == 4
MaxWeights == 3

Dates == 1..MaxDate
PriceValues == {1, 2}
ScoreValues == {
    [positive |-> 3, neutral |-> 1, negative |-> 0, emb_0 |-> 1],
    [positive |-> 0, neutral |-> 2, negative |-> 2, emb_0 |-> 0],
    [positive |-> 1, neutral |-> 1, negative |-> 2, emb_0 |-> 3] }
PlainScore == [positive |-> 3, neutral |-> 1, negative |-> 0, emb_0 |-> 1]
LagValues == {10, 20, 30, 40}
WeightValues == {0, 1, 2, 3}

Null == <<>>

(***************************************************************************)
(* Exact arithmetic.                                                       *)
(***************************************************************************)
Abs(x) == IF x < 0 THEN -x ELSE x

Sgn(x) == IF x > 0 THEN 1 ELSE IF x < 0 THEN -1 ELSE 0

RECURSIVE GCD(_, _)
GCD(a, b) == IF b = 0 THEN a ELSE GCD(b, a % b)

NaN == <<0, 0>>

\* n/d in lowest terms with a positive denominator; x/0 is inf or NaN
Rat(n, d) ==
    IF d = 0 THEN <<Sgn(n), 0>>
    ELSE LET g == GCD(Abs(n), Abs(d))
         IN  <<(Sgn(d) * n) \div g, Abs(d) \div g>>

RatAdd(a, b) ==
    IF a[2] = 0 /\ b[2] = 0 THEN (IF a = b THEN a ELSE NaN)
    ELSE Rat(a[1] * b[2] + b[1] * a[2], a[2] * b[2])

RatSub(a, b) == RatAdd(a, <<-b[1], b[2]>>)

RatMul(a, b) == Rat(a[1] * b[1], a[2] * b[2])

RatDiv(a, b) == Rat(a[1] * b[2], a[2] * b[1])

(***************************************************************************)
(* Data-frame helpers.                                                     *)
(***************************************************************************)
RECURSIVE Flatten(_)
Flatten(ss) == IF ss = <<>> THEN <<>> ELSE Head(ss) \o Flatten(Tail(ss))

DatesOf(t) == {t[i].Date : i \in DOMAIN t}

\* DataFrame.sort_values("Date"): the default sort is not stable, so rows
\* with equal dates may come out in any order
RECURSIVE SortOrders(_, _)
SortOrders(t, I) ==
    IF I = {} THEN {<<>>}
    ELSE LET first == {i \in I : \A j \in I : t[i].Date <= t[j].Date}
         IN  UNION {{<<i>> \o s : s \in SortOrders(t, I \ {i})} : i \in first}

SortValues(t) == {[k \in 1..Len(t) |-> t[o[k]]] : o \in SortOrders(t, DOMAIN t)}

\* the keys of a groupby, ascending
RECURSIVE Ascending(_)
Ascending(S) ==
    IF S = {} THEN <<>>
    ELSE LET m == CHOOSE x \in S : \A y \in S : x <= y
         IN  <<m>> \o Ascending(S \ {m})

\* left.merge(right, on="Date", how="left"); missing is the all-null right row
LeftMerge(left, right, missing) ==
    Flatten([i \in DOMAIN left |->
        LET hits == SelectSeq(right, LAMBDA r : r.Date = left[i].Date)
        IN  IF hits = <<>> THEN <<left[i] @@ missing>>
            ELSE [k \in DOMAIN hits |-> left[i] @@ hits[k]]])

\* left.merge(right, on="Date", how="outer"), before the caller's sort
OuterMerge(left, right, missingLeft, missingRight) ==
    LeftMerge(left, right, missingRight)
    \o [k \in DOMAIN SelectSeq(right, LAMBDA r : r.Date \notin DatesOf(left)) |->
          SelectSeq(right, LAMBDA r : r.Date \notin DatesOf(left))[k] @@ missingLeft]

(***************************************************************************)
(* stock_prices.py                                                         *)
(***************************************************************************)
\* data["Price"].pct_change(): in file order, no sort
pct_change(t, i) ==
    IF i = 1 THEN Null ELSE Rat(t[i].Price - t[i-1].Price, t[i-1].Price)

\* np.sign; the sign of NaN is NaN
sign(r) == IF r = Null THEN Null ELSE <<Sgn(r[1])>>

preprocess(t) ==
    [i \in DOMAIN t |->
        [Date |-> t[i].Date, Price |-> <<t[i].Price>>,
         Return |-> pct_change(t, i), Sign |-> sign(pct_change(t, i))]]

PreprocessFile ==
    /\ pc = "raw"
    /\ etf' = preprocess(raw)
    /\ pc' = "preprocessed"
    /\ UNCHANGED <<raw, news, min_headlines, prices, daily, merged_daily, data,
                   news_td, out, lag_values, lag_weights, lag_result,
                   caller_df, returned, report, results>>

(***************************************************************************)
(* sector_specific_sentiment.py: add_next_day_cols_FIXED                   *)
(***************************************************************************)
\* the mutation: shift(1), the previous row instead of the next
shift_forward(t, col, i) == IF i > 1 THEN t[i-1][col] ELSE Null

\* Series.shift(-1): row i takes the value of row i+1, the last row NaN
shift(t, col, i) == IF i < Len(t) THEN t[i+1][col] ELSE Null

next_day_cols(t) ==
    [i \in DOMAIN t |->
        t[i] @@ [Return_next_day |-> shift(t, "Return", i),
                 Sign_next_day |-> shift(t, "Sign", i)]]

add_next_day_cols_FIXED(t) == {next_day_cols(s) : s \in SortValues(t)}

AddNextDayColsFixed ==
    /\ pc = "preprocessed"
    /\ prices' \in add_next_day_cols_FIXED(etf)
    /\ pc' = "shifted"
    /\ UNCHANGED <<raw, news, min_headlines, etf, daily, merged_daily, data,
                   news_td, out, lag_values, lag_weights, lag_result,
                   caller_df, returned, report, results>>

(***************************************************************************)
(* sector_specific_sentiment.py: compute_sector_daily                      *)
(***************************************************************************)
\* the mutation: the sector filter left out
unfiltered(t) == t

\* df.loc[df[ticker] == 1]
flagged(t) == SelectSeq(t, LAMBDA r : r.XLE = 1)

RECURSIVE Sum(_, _)
Sum(t, col) == IF t = <<>> THEN 0 ELSE Head(t)[col] + Sum(Tail(t), col)

\* the "mean" aggregation of one group
mean(g, col) == Rat(Sum(g, col), Len(g))

\* the "count" aggregation of one group
count(g) == <<Len(g)>>

\* avg_positive - avg_negative
sent_index(g) == RatSub(mean(g, "positive"), mean(g, "negative"))

\* one output row of groupby(key).agg(...), with the index column
agg_row(g, k) ==
    [Date |-> k,
     avg_positive_XLE |-> mean(g, "positive"),
     avg_neutral_XLE |-> mean(g, "neutral"),
     avg_negative_XLE |-> mean(g, "negative"),
     n_XLE |-> count(g),
     sent_index_XLE |-> sent_index(g)]

ValueCols == {"avg_positive_XLE", "avg_neutral_XLE", "avg_negative_XLE",
              "sent_index_XLE"}

\* the mutation: rows at the threshold are suppressed too
too_few_inclusive(row, m) == m > 1 /\ row.n_XLE[1] <= m

\* if min_headlines > 1: too_few = n < min_headlines
too_few(row, m) == m > 1 /\ row.n_XLE[1] < m

\* out.loc[too_few, cols] = np.nan
suppress(row, m, cols) ==
    IF too_few(row, m)
    THEN [c \in DOMAIN row |-> IF c \in cols THEN Null ELSE row[c]]
    ELSE row

\* the rows of the sector grouped by key, one output row per key, ascending
group(sector, key, k) == SelectSeq(sector, LAMBDA r : r[key] = k)

aggregate(sector, key, m) ==
    LET keys == Ascending({sector[i][key] : i \in DOMAIN sector})
    IN  [j \in DOMAIN keys |->
            suppress(agg_row(group(sector, key, keys[j]), keys[j]), m, ValueCols)]

compute_sector_daily(df, m) == aggregate(flagged(df), "Date", m)

ComputeSectorDaily ==
    /\ pc \in {"raw", "preprocessed"}
    /\ daily' = compute_sector_daily(news, min_headlines)
    /\ caller_df' = news       \* df = df.copy(): the work is done on a copy
    /\ returned' = daily'
    /\ pc' = "daily"
    /\ UNCHANGED <<raw, news, min_headlines, etf, prices, merged_daily, data,
                   news_td, out, lag_values, lag_weights, lag_result,
                   report, results>>

(***************************************************************************)
(* sector_specific_sentiment.py: build_all_sector_datasets                 *)
(***************************************************************************)
MissingPrices ==
    [Price |-> Null, Return |-> Null, Sign |-> Null,
     Return_next_day |-> Null, Sign_next_day |-> Null]

MissingDaily ==
    [avg_positive_XLE |-> Null, avg_neutral_XLE |-> Null,
     avg_negative_XLE |-> Null, n_XLE |-> Null, sent_index_XLE |-> Null]

\* the mutation: the shift done after the join, on the calendar-day table
shift_after_merge(s, d) ==
    LET joined == OuterMerge(s, d, [Price |-> Null, Return |-> Null, Sign |-> Null],
                             MissingDaily)
        sorted == CHOOSE t \in SortValues(joined) : TRUE
    IN  next_day_cols(sorted)

\* prices.merge(daily, on="Date", how="outer"), prices shifted beforehand;
\* s is the price table in date order
merge_prices_daily(s, d) ==
    OuterMerge(next_day_cols(s), d, MissingPrices, MissingDaily)

\* the mutation: the daily columns attached by row position, not by Date
merge_headlines_by_position(df, md) ==
    [i \in DOMAIN df |->
        df[i] @@ (IF i <= Len(md) THEN md[i] ELSE MissingPrices @@ MissingDaily)]

\* df.merge(merged_daily, on="Date", how="left")
merge_headlines(df, md) == LeftMerge(df, md, MissingPrices @@ MissingDaily)

BuildAllSectorDatasets ==
    /\ pc = "preprocessed"
    /\ daily' = compute_sector_daily(news, min_headlines)
    /\ \E s \in SortValues(etf) :
          /\ prices' = next_day_cols(s)
          /\ merged_daily' \in SortValues(merge_prices_daily(s, daily'))
    /\ data' = merge_headlines(news, merged_daily')
    /\ pc' = "built"
    /\ UNCHANGED <<raw, news, min_headlines, etf, news_td, out,
                   lag_values, lag_weights, lag_result,
                   caller_df, returned, report, results>>

(***************************************************************************)
(* etf_transformations.py: compute_sector_daily_no_weekends                *)
(***************************************************************************)
\* the mutation: the price file joined onto the daily aggregate instead
prices_onto_sentiment(df, news_df, m) ==
    LeftMerge(aggregate(flagged(news_df), "Date", m), df,
              [Price |-> Null, Return |-> Null, Sign |-> Null])

\* df.merge(daily_sentiment_score, on="Date", how="left"), df the price file
compute_sector_daily_no_weekends(df, news_df, m) ==
    LeftMerge(df, aggregate(flagged(news_df), "Date", m), MissingDaily)

ComputeSectorDailyNoWeekends ==
    /\ pc = "preprocessed"
    /\ out' = compute_sector_daily_no_weekends(etf, news, min_headlines)
    /\ pc' = "v1"
    /\ UNCHANGED <<raw, news, min_headlines, etf, prices, daily, merged_daily,
                   data, news_td, lag_values, lag_weights, lag_result,
                   caller_df, returned, report, results>>

(***************************************************************************)
(* etf_transformations.py: compute_sector_and_embeddings_daily_no_weekends *)
(***************************************************************************)
\* the aggregate with the mean of the embedding column attached under the
\* name emb, both suppressed together
aggregate_with_embeddings(sector, key, m, emb) ==
    LET keys == Ascending({sector[i][key] : i \in DOMAIN sector})
    IN  [j \in DOMAIN keys |->
            LET g == group(sector, key, keys[j])
            IN  suppress(agg_row(g, keys[j]) @@ (emb :> mean(g, "emb_0")), m,
                         ValueCols \cup {emb})]

emb_out_col(prefix_emb) == IF prefix_emb THEN "emb_0_XLE" ELSE "emb_0"

compute_sector_and_embeddings_daily_no_weekends(df, news_df, m, prefix_emb) ==
    LeftMerge(df,
              aggregate_with_embeddings(flagged(news_df), "Date", m,
                                        emb_out_col(prefix_emb)),
              MissingDaily @@ (emb_out_col(prefix_emb) :> Null))

ComputeSectorAndEmbeddingsDailyNoWeekends ==
    /\ pc = "preprocessed"
    /\ \E prefix_emb \in BOOLEAN :
          out' = compute_sector_and_embeddings_daily_no_weekends(
                     etf, news, min_headlines, prefix_emb)
    /\ pc' = "v2"
    /\ UNCHANGED <<raw, news, min_headlines, etf, prices, daily, merged_daily,
                   data, news_td, lag_values, lag_weights, lag_result,
                   caller_df, returned, report, results>>

(***************************************************************************)
(* etf_transformations.py: the weekend-aggregated policies                 *)
(***************************************************************************)
\* date_flags: the first row of each date of the sorted headline table
date_flag(news_df, d) ==
    news_df[CHOOSE i \in DOMAIN news_df :
                /\ news_df[i].Date = d
                /\ \A k \in DOMAIN news_df : news_df[k].Date = d => i <= k].is_trading_day

\* the dates of the headline table flagged as trading days
flagged_trading_dates(news_df) ==
    {d \in DatesOf(news_df) : date_flag(news_df, d) = 1}

\* the mutation: the next trading date strictly after the headline's date
trading_date_strictly_after(news_df, d) ==
    LET later == {t \in flagged_trading_dates(news_df) : t > d}
    IN  IF later = {} THEN Null
        ELSE <<CHOOSE t \in later : \A u \in later : t <= u>>

\* the mutation: bfill then ffill, trailing headlines put on the last trading date
trading_date_bfill_ffill(news_df, d) ==
    LET later == {t \in flagged_trading_dates(news_df) : t >= d}
        all == flagged_trading_dates(news_df)
    IN  IF later # {} THEN <<CHOOSE t \in later : \A u \in later : t <= u>>
        ELSE IF all # {} THEN <<CHOOSE t \in all : \A u \in all : t >= u>>
        ELSE Null

\* TradingDate: Date where is_trading_day == 1, else NaT, then bfill()
trading_date(news_df, d) ==
    LET later == {t \in flagged_trading_dates(news_df) : t >= d}
    IN  IF later = {} THEN Null
        ELSE <<CHOOSE t \in later : \A u \in later : t <= u>>

\* news_df.merge(date_flags[["Date", "TradingDate"]]).dropna(subset=["TradingDate"]);
\* a TradingDate is <<date>> or NaT until the rows without one are dropped
with_trading_date(news_df) ==
    LET kept == SelectSeq(news_df, LAMBDA r : trading_date(news_df, r.Date) # Null)
    IN  [i \in DOMAIN kept |->
            kept[i] @@ [TradingDate |-> trading_date(news_df, kept[i].Date)[1]]]

\* out: the aggregate by TradingDate, renamed to Date, is_trading_day = 1
aggregate_to_next_trading_day_with_sectors(td, m) ==
    LET a == aggregate(flagged(td), "TradingDate", m)
    IN  [j \in DOMAIN a |-> a[j] @@ [is_trading_day |-> 1]]

aggregate_to_next_trading_day_sector_with_embeddings(td, m) ==
    LET a == aggregate_with_embeddings(flagged(td), "TradingDate", m, "emb_0")
    IN  [j \in DOMAIN a |-> a[j] @@ [is_trading_day |-> 1]]

AggregateToNextTradingDayWithSectors ==
    /\ pc = "preprocessed"
    /\ \E df \in SortValues(etf), news_df \in SortValues(news) :
          /\ news_td' = with_trading_date(news_df)
          /\ out' = LeftMerge(df,
                       aggregate_to_next_trading_day_with_sectors(news_td', min_headlines),
                       MissingDaily @@ [is_trading_day |-> Null])
    /\ pc' = "v3"
    /\ UNCHANGED <<raw, news, min_headlines, etf, prices, daily, merged_daily,
                   data, lag_values, lag_weights, lag_result,
                   caller_df, returned, report, results>>

AggregateToNextTradingDaySectorWithEmbeddings ==
    /\ pc = "preprocessed"
    /\ \E df \in SortValues(etf), news_df \in SortValues(news) :
          /\ news_td' = with_trading_date(news_df)
          /\ out' = LeftMerge(df,
                       aggregate_to_next_trading_day_sector_with_embeddings(
                           news_td', min_headlines),
                       MissingDaily @@ [is_trading_day |-> Null, emb_0 |-> Null])
    /\ pc' = "v4"
    /\ UNCHANGED <<raw, news, min_headlines, etf, prices, daily, merged_daily,
                   data, lag_values, lag_weights, lag_result,
                   caller_df, returned, report, results>>

(***************************************************************************)
(* weighted_lag_features.py                                                *)
(***************************************************************************)
RECURSIVE SumSeq(_)
SumSeq(q) == IF q = <<>> THEN 0 ELSE Head(q) + SumSeq(Tail(q))

\* the mutation: the weights applied most recent first
normalise_reversed(weights) ==
    [j \in DOMAIN weights |-> Rat(weights[Len(weights) + 1 - j], SumSeq(weights))]

\* w = w / w.sum(); a zero sum makes every weight NaN or inf
normalise(weights) == [j \in DOMAIN weights |-> Rat(weights[j], SumSeq(weights))]

\* values[i-k+1 : i+1] for the 0-based row i, rows numbered from 1 here
window(values, i, k) == SubSeq(values, i - k + 1, i)

\* np.dot(window, w)
RECURSIVE dot(_, _)
dot(win, w) ==
    IF win = <<>> THEN <<0, 1>>
    ELSE RatAdd(RatMul(<<Head(win), 1>>, Head(w)), dot(Tail(win), Tail(w)))

\* result = [None] * n, then result[i] for i in range(k-1, n)
add_weighted_lag_feature(values, weights) ==
    LET w == normalise(weights)
        k == Len(w)
    IN  [i \in DOMAIN values |->
            IF i >= k THEN dot(window(values, i, k), w) ELSE Null]

\* with no weights the loop starts at i = -1: result[-1] of an empty list
\* raises IndexError before the column is written
AddWeightedLagFeature ==
    /\ pc \in {"lag", "preprocessed"}
    /\ IF lag_weights = <<>> /\ lag_values = <<>>
       THEN pc' = "lag_error" /\ UNCHANGED lag_result
       ELSE /\ lag_result' = add_weighted_lag_feature(lag_values, lag_weights)
            /\ pc' = "lag_done"
    /\ UNCHANGED <<raw, news, min_headlines, etf, prices, daily, merged_daily,
                   data, news_td, out, lag_values, lag_weights,
                   caller_df, returned, report, results>>

(***************************************************************************)
(* etf_transformations.py: sign_next_day, is_trading_day_column            *)
(***************************************************************************)
\* what a caller would hold had the function worked on a copy
left_alone(passed, result) == passed

\* df[...] = ...; return df: the function assigns into the table it was
\* passed and returns that same object
assigned(passed, result) == result

sign_next_day(t) ==
    [i \in DOMAIN t |-> t[i] @@ [Sign_next_day |-> shift(t, "Sign", i)]]

SignNextDay ==
    /\ pc = "preprocessed"
    /\ returned' = sign_next_day(etf)
    /\ caller_df' = assigned(etf, returned')
    /\ pc' = "sign_next_day"
    /\ UNCHANGED <<raw, news, min_headlines, etf, prices, daily, merged_daily,
                   data, news_td, out, lag_values, lag_weights, lag_result,
                   report, results>>

\* the headline table before its is_trading_day column is computed
unflagged(t) ==
    [i \in DOMAIN t |-> [c \in DOMAIN t[i] \ {"is_trading_day"} |-> t[i][c]]]

\* the dates are whole days already, so dt.normalize() changes none; schedule
\* is the exchange calendar between the first and the last date of t
is_trading_day_column(t, schedule) ==
    [i \in DOMAIN t |->
        t[i] @@ [is_trading_day |-> IF t[i].Date \in schedule THEN 1 ELSE 0]]

IsTradingDayColumn ==
    /\ pc = "preprocessed"
    /\ returned' = is_trading_day_column(unflagged(news), DatesOf(raw))
    /\ caller_df' = assigned(unflagged(news), returned')
    /\ pc' = "is_trading_day"
    /\ UNCHANGED <<raw, news, min_headlines, etf, prices, daily, merged_daily,
                   data, news_td, out, lag_values, lag_weights, lag_result,
                   report, results>>

(***************************************************************************)
(* comprehensive_verification.py                                           *)
(***************************************************************************)
ToleranceInverse == 1000000     \* the tolerance 0.000001 is 1 / ToleranceInverse
FridaySample == 10
LongBreak == 3
HolidayHead == 5
RandomLimit == 11
RandomSample == 10

\* Date.dt.day_name() == "Friday": date 1 of the model is a Friday
is_friday(d) == d % 7 = 1

\* data[data["Price"].notna()]
trading_days(t) == SelectSeq(t, LAMBDA r : r.Price # Null)

\* abs(a - b) of two floats, either of which may be NaN
abs_difference(a, b) ==
    IF a = Null \/ b = Null THEN NaN
    ELSE LET d == RatSub(a, b) IN <<Abs(d[1]), d[2]>>

\* x > 0.000001 and x >= 0.000001; both are False of NaN
exceeds(x) ==
    IF x[2] = 0 THEN x[1] # 0 ELSE x[1] * ToleranceInverse > x[2]

reaches(x) ==
    IF x[2] = 0 THEN x[1] # 0 ELSE x[1] * ToleranceInverse >= x[2]

\* trading_days[trading_days["Date"] > row["Date"]].iloc[0], if there is one
next_trading(td, i) ==
    LET later == {j \in DOMAIN td : td[j].Date > td[i].Date}
    IN  IF later = {} THEN {}
        ELSE {CHOOSE j \in later : \A k \in later : j <= k}

\* the rows of sample whose Return_next_day is off the next trading row's Return
date_mismatches(td, sample) ==
    Cardinality({i \in sample : \E j \in next_trading(td, i) :
        exceeds(abs_difference(td[i].Return_next_day, td[j].Return))})

\* np.linspace(0, len(fridays)-1, 10, dtype=int) when there are more than 10
sample_fridays(td) ==
    LET fridays == Ascending({i \in DOMAIN td : is_friday(td[i].Date)})
        n == Len(fridays)
    IN  IF n > FridaySample
        THEN {fridays[1 + (i * (n - 1)) \div (FridaySample - 1)] :
                 i \in 0..(FridaySample - 1)}
        ELSE {fridays[i] : i \in DOMAIN fridays}

\* trading_days[days_gap > 3].head(5)
holidays(td) ==
    LET gaps == Ascending({i \in DOMAIN td :
                    i < Len(td) /\ td[i+1].Date - td[i].Date > LongBreak})
    IN  {gaps[i] : i \in {k \in DOMAIN gaps : k <= HolidayHead}}

\* np.random.choice over all rows but the last when there are more than 11
random_samples(td) ==
    IF Len(td) > RandomLimit
    THEN {S \in SUBSET (1..(Len(td) - 1)) : Cardinality(S) = RandomSample}
    ELSE {1..(Len(td) - 1)}

\* (differences >= 0.000001).sum(), each row against the row after it
row_mismatches(td) ==
    Cardinality({i \in DOMAIN td : i < Len(td) /\
        reaches(abs_difference(td[i].Return_next_day, td[i+1].Return))})

final_summary(mismatches) == IF mismatches = 0 THEN "passed" ELSE "issues"

\* sorted is data.sort_values("Date"), sample the rows of test 3
verification(sorted, sample) ==
    LET td == trading_days(sorted)
    IN  [friday_mismatches |-> date_mismatches(td, sample_fridays(td)),
         holiday_mismatches |-> date_mismatches(td, holidays(td)),
         random_mismatches |-> date_mismatches(td, sample),
         mismatches |-> row_mismatches(td),
         verdict |-> final_summary(row_mismatches(td))]

\* the date range of an empty file is NaT, whose strftime raises
ComprehensiveVerification ==
    /\ pc = "built"
    /\ IF data = <<>>
       THEN pc' = "verify_error" /\ UNCHANGED report
       ELSE /\ \E sorted \in SortValues(data) :
                  \E sample \in random_samples(trading_days(sorted)) :
                      report' = verification(sorted, sample)
            /\ pc' = "verified"
    /\ UNCHANGED <<raw, news, min_headlines, etf, prices, daily, merged_daily,
                   data, news_td, out, lag_values, lag_weights, lag_result,
                   caller_df, returned, results>>

\* results[ticker]: the file is read again and not sorted
quick_summary(t) ==
    LET td == trading_days(t)
    IN  IF Len(td) > 1
        THEN (IF row_mismatches(td) = 0 THEN <<"PASS">>
              ELSE <<"FAIL", row_mismatches(td)>>)
        ELSE <<"N/A">>

VerifyAllTickers ==
    /\ pc = "built"
    /\ IF data = <<>>
       THEN pc' = "verify_error" /\ UNCHANGED <<report, results>>
       ELSE /\ \E sorted \in SortValues(data) :
                  \E sample \in random_samples(trading_days(sorted)) :
                      report' = verification(sorted, sample)
            /\ results' = [XLE |-> quick_summary(data)]
            /\ pc' = "verified_all"
    /\ UNCHANGED <<raw, news, min_headlines, etf, prices, daily, merged_daily,
                   data, news_td, out, lag_values, lag_weights, lag_result,
                   caller_df, returned>>

(***************************************************************************)
(* Inputs.                                                                 *)
(***************************************************************************)
SeqsUpTo(S, n) == UNION {[1..k -> S] : k \in 0..n}

PriceRows == [Date : Dates, Price : PriceValues]

\* any price CSV: rows in any order, dates possibly repeated
RawTables == SeqsUpTo(PriceRows, MaxRows)

\* a price CSV as the interface promises it: ascending, one row per date
ContractTables ==
    {t \in RawTables : \A i \in DOMAIN t : i > 1 => t[i-1].Date < t[i].Date}

\* is_trading_day_column: 1 on the dates of the exchange schedule
is_trading_day(d, schedule) == IF d \in schedule THEN 1 ELSE 0

HeadlineRows(scores, schedule) ==
    {[Date |-> d, XLE |-> f, is_trading_day |-> is_trading_day(d, schedule)] @@ sc :
        d \in Dates, f \in {0, 1}, sc \in scores}

\* a headline file: preprocess_news leaves it sorted by Date
NewsTables(scores, schedule) ==
    {t \in SeqsUpTo(HeadlineRows(scores, schedule), MaxHeadlines) :
        \A i \in DOMAIN t : i > 1 => t[i-1].Date <= t[i].Date}

NoInputs ==
    /\ etf = <<>> /\ prices = <<>> /\ daily = <<>> /\ merged_daily = <<>>
    /\ data = <<>> /\ news_td = <<>> /\ out = <<>>
    /\ caller_df = <<>> /\ returned = <<>> /\ report = <<>> /\ results = <<>>

NoLag == lag_values = <<>> /\ lag_weights = <<>> /\ lag_result = <<>>

InitPrices ==
    /\ pc = "raw"
    /\ raw \in RawTables
    /\ news = <<>>
    /\ min_headlines = 1
    /\ NoInputs
    /\ NoLag

NextPrices == PreprocessFile \/ AddNextDayColsFixed

SpecPrices == InitPrices /\ [][NextPrices]_vars

\* price files that keep the interface's promise, headlines on any dates
InitBuild ==
    /\ pc = "raw"
    /\ raw \in ContractTables
    /\ news \in NewsTables({PlainScore}, DatesOf(raw))
    /\ min_headlines = 1
    /\ NoInputs
    /\ NoLag

NextBuild == PreprocessFile \/ BuildAllSectorDatasets \/ ComputeSectorDailyNoWeekends

SpecBuild == InitBuild /\ [][NextBuild]_vars

\* the aggregators of etf_transformations.py, under every threshold
InitAggregated ==
    /\ pc = "raw"
    /\ raw \in ContractTables
    /\ news \in NewsTables({PlainScore}, DatesOf(raw))
    /\ min_headlines \in 1..MaxMinHeadlines
    /\ NoInputs
    /\ NoLag

NextAggregated ==
    \/ PreprocessFile
    \/ ComputeSectorDaily
    \/ ComputeSectorAndEmbeddingsDailyNoWeekends
    \/ AggregateToNextTradingDayWithSectors
    \/ AggregateToNextTradingDaySectorWithEmbeddings

SpecAggregated == InitAggregated /\ [][NextAggregated]_vars

\* compute_sector_daily alone, on headlines with varied scores
InitSentiment ==
    /\ pc = "raw"
    /\ raw = <<>>
    /\ news \in NewsTables(ScoreValues, {})
    /\ min_headlines \in 1..MaxMinHeadlines
    /\ NoInputs
    /\ NoLag

NextSentiment == ComputeSectorDaily

SpecSentiment == InitSentiment /\ [][NextSentiment]_vars

\* add_weighted_lag_feature on any column and any weights
InitLag ==
    /\ pc = "lag"
    /\ lag_values \in SeqsUpTo(LagValues, MaxLen)
    /\ lag_weights \in SeqsUpTo(WeightValues, MaxWeights)
    /\ lag_result = <<>>
    /\ raw = <<>> /\ news = <<>> /\ min_headlines = 1
    /\ NoInputs

NextLag == AddWeightedLagFeature

SpecLag == InitLag /\ [][NextLag]_vars

\* sample weights of the lag feature computed over the Price column
StageWeights == {<<1>>, <<1, 2>>}

\* each stage called on the tables of one run: the preprocessed price table,
\* its Price column, the headline table
InitStages ==
    /\ pc = "raw"
    /\ raw \in ContractTables
    /\ news \in NewsTables({PlainScore}, DatesOf(raw))
    /\ min_headlines = 1
    /\ lag_values = [i \in DOMAIN raw |-> raw[i].Price]
    /\ lag_weights \in StageWeights
    /\ lag_result = <<>>
    /\ NoInputs

NextStages ==
    \/ PreprocessFile
    \/ ComputeSectorDaily
    \/ SignNextDay
    \/ IsTradingDayColumn
    \/ AddWeightedLagFeature

SpecStages == InitStages /\ [][NextStages]_vars

\* build_all_sector_datasets and the verification of its output file, on a
\* price file that keeps the interface's promise or on a shorter one with its
\* rows in any order and dates possibly repeated
InitOutput ==
    /\ pc = "raw"
    /\ raw \in ContractTables \cup SeqsUpTo(PriceRows, MaxVerifiedRows)
    /\ news \in NewsTables({PlainScore}, DatesOf(raw))
    /\ min_headlines = 1
    /\ NoInputs
    /\ NoLag

NextOutput ==
    \/ PreprocessFile
    \/ BuildAllSectorDatasets
    \/ ComprehensiveVerification
    \/ VerifyAllTickers

SpecOutput == InitOutput /\ [][NextOutput]_vars

(***************************************************************************)
(* C1.  After add_next_day_cols_FIXED the table is in ascending date order *)
(* and every row that has a chronological successor row carries that       *)
(* successor's Return and Sign as Return_next_day and Sign_next_day; the   *)
(* chronologically last row has both null.                                 *)
(***************************************************************************)
OnlyRowOn(t, i) == \A k \in DOMAIN t : t[k].Date = t[i].Date => k = i

\* the rows of t on the earliest date strictly after d
SuccessorRows(t, d) ==
    {j \in DOMAIN t : /\ t[j].Date > d
                      /\ \A k \in DOMAIN t : t[k].Date > d => t[j].Date <= t[k].Date}

C1_NextDayIsSuccessorRow ==
    pc = "shifted" =>
        /\ Len(prices) = Len(etf)
        /\ \A i \in DOMAIN prices :
              /\ i > 1 => prices[i-1].Date <= prices[i].Date
              /\ i < Len(prices) =>
                    /\ prices[i].Return_next_day = prices[i+1].Return
                    /\ prices[i].Sign_next_day = prices[i+1].Sign
              /\ i = Len(prices) =>
                    /\ prices[i].Return_next_day = Null
                    /\ prices[i].Sign_next_day = Null
              /\ \A j \in SuccessorRows(prices, prices[i].Date) :
                    (OnlyRowOn(prices, i) /\ OnlyRowOn(prices, j)) =>
                        /\ prices[i].Return_next_day = prices[j].Return
                        /\ prices[i].Sign_next_day = prices[j].Sign

\* an unsorted three-day file whose earliest day maps to a real next-day return
C1_Witness ==
    /\ pc = "shifted"
    /\ Len(prices) = 3
    /\ raw[1].Date > raw[2].Date
    /\ prices[1].Date < prices[2].Date /\ prices[2].Date < prices[3].Date
    /\ prices[1].Return_next_day # Null
    /\ prices[1].Return_next_day = prices[2].Return
    /\ prices[1].Return_next_day # prices[1].Return
    /\ prices[3].Return_next_day = Null

NextPricedRows(t, i) ==
    {j \in DOMAIN t :
        /\ t[j].Price # Null /\ t[j].Date > t[i].Date
        /\ \A k \in DOMAIN t :
              (t[k].Price # Null /\ t[k].Date > t[i].Date) => t[j].Date <= t[k].Date}

FlaggedOn(d) == SelectSeq(news, LAMBDA h : h.XLE = 1 /\ h.Date = d)

RowsOn(t, d) == {i \in DOMAIN t : t[i].Date = d}

C9_Original ==
    pc = "v1" =>
        \A h \in DOMAIN news :
            news[h].XLE = 1 =>
                \E i \in RowsOn(out, news[h].Date) :
                    /\ out[i].n_XLE # Null
                    /\ news[h].Date \notin DatesOf(etf) => out[i].Price = Null

(***************************************************************************)
(* C9, amended.  compute_sector_daily_no_weekends left-joins the daily     *)
(* aggregate onto the price file: its output has exactly the rows of the   *)
(* price file, each with the aggregate of its own date, and a non-trading  *)
(* date never appears.  It is the outer join in build_all_sector_datasets  *)
(* whose daily table has one row for every date with a sector-flagged      *)
(* headline, a non-trading date among them carrying its aggregate with     *)
(* null price, return and next-day fields.                                 *)
(***************************************************************************)
C9_PolicyOneKeepsPriceRowsOnly ==
    /\ pc = "v1" =>
          /\ Len(out) = Len(etf)
          /\ \A i \in DOMAIN out :
                /\ out[i].Date = etf[i].Date
                /\ out[i].Price = etf[i].Price
                /\ out[i].Return = etf[i].Return
                /\ out[i].n_XLE = (IF FlaggedOn(out[i].Date) = <<>> THEN Null
                                   ELSE <<Len(FlaggedOn(out[i].Date))>>)
    /\ pc = "built" =>
          \A h \in DOMAIN news :
              news[h].XLE = 1 =>
                  /\ Cardinality(RowsOn(merged_daily, news[h].Date)) = 1
                  /\ \A i \in RowsOn(merged_daily, news[h].Date) :
                        /\ merged_daily[i].n_XLE = <<Len(FlaggedOn(news[h].Date))>>
                        /\ merged_daily[i].sent_index_XLE # Null
                        /\ news[h].Date \notin DatesOf(etf) =>
                              /\ merged_daily[i].Price = Null
                              /\ merged_daily[i].Return = Null
                              /\ merged_daily[i].Sign = Null
                              /\ merged_daily[i].Return_next_day = Null
                              /\ merged_daily[i].Sign_next_day = Null

\* policy 1 has run on a sector headline of a non-trading date between two
\* trading days
C9_Witness ==
    /\ pc = "v1"
    /\ \E h \in DOMAIN news :
          /\ news[h].XLE = 1
          /\ news[h].Date \notin DatesOf(etf)
          /\ RowsOn(out, news[h].Date) = {}
          /\ \E i, j \in DOMAIN out :
                out[i].Date < news[h].Date /\ news[h].Date < out[j].Date

(***************************************************************************)
(* C4.  Under the weekend-aggregated policies the count n_XLE on the row   *)
(* of every trading day t equals the number of sector-flagged headlines    *)
(* dated strictly after the previous trading day and on or before t (a     *)
(* missing count read as zero).                                            *)
(***************************************************************************)
Aggregated == pc \in {"v3", "v4"}

\* the count a row reports, a missing count read as zero
CountOn(row) == IF row.n_XLE = Null THEN 0 ELSE row.n_XLE[1]

\* the latest trading day before t, or a date before every date
PreviousTradingDay(t) ==
    LET before == {d \in DatesOf(etf) : d < t}
    IN  IF before = {} THEN 0 ELSE CHOOSE d \in before : \A e \in before : e <= d

FlaggedBetween(lo, hi) ==
    Cardinality({h \in DOMAIN news :
                    news[h].XLE = 1 /\ lo < news[h].Date /\ news[h].Date <= hi})

C4_CountSincePreviousTradingDay ==
    Aggregated =>
        \A i \in DOMAIN out :
            CountOn(out[i]) = FlaggedBetween(PreviousTradingDay(out[i].Date), out[i].Date)

NewsTradingDates == {news[h].Date : h \in {k \in DOMAIN news : news[k].is_trading_day = 1}}

HasTradingDate(d) == \E t \in NewsTradingDates : t >= d

RemappedTo(t) ==
    Cardinality({i \in DOMAIN news_td :
                    news_td[i].XLE = 1 /\ news_td[i].TradingDate = t})

RECURSIVE SumCounts(_)
SumCounts(t) == IF t = <<>> THEN 0 ELSE CountOn(Head(t)) + SumCounts(Tail(t))

FlaggedRowsOn(d) == {h \in DOMAIN news : news[h].XLE = 1 /\ news[h].Date = d}

RECURSIVE Total(_, _)
Total(I, col) ==
    IF I = {} THEN 0
    ELSE LET h == CHOOSE x \in I : TRUE IN news[h][col] + Total(I \ {h}, col)

MeanOn(d, col) == Rat(Total(FlaggedRowsOn(d), col), Cardinality(FlaggedRowsOn(d)))

C7_OneRowPerFlaggedDate ==
    pc = "daily" =>
        /\ DatesOf(daily) = {news[h].Date : h \in {k \in DOMAIN news : news[k].XLE = 1}}
        /\ Len(daily) = Cardinality(DatesOf(daily))
        /\ \A i \in DOMAIN daily :
              min_headlines <= 1 =>
                  /\ daily[i].n_XLE = <<Cardinality(FlaggedRowsOn(daily[i].Date))>>
                  /\ daily[i].avg_positive_XLE = MeanOn(daily[i].Date, "positive")
                  /\ daily[i].avg_neutral_XLE = MeanOn(daily[i].Date, "neutral")
                  /\ daily[i].avg_negative_XLE = MeanOn(daily[i].Date, "negative")
                  /\ daily[i].sent_index_XLE =
                        RatSub(daily[i].avg_positive_XLE, daily[i].avg_negative_XLE)
                  /\ daily[i].sent_index_XLE =
                        Rat(Total(FlaggedRowsOn(daily[i].Date), "positive")
                              - Total(FlaggedRowsOn(daily[i].Date), "negative"),
                            Cardinality(FlaggedRowsOn(daily[i].Date)))

\* a date with a flagged and an unflagged headline of different scores
C7_Witness ==
    /\ pc = "daily"
    /\ min_headlines = 1
    /\ Len(news) = 2
    /\ news[1].Date = news[2].Date
    /\ news[1].XLE = 1 /\ news[2].XLE = 0
    /\ news[1].positive # news[2].positive
    /\ Len(daily) = 1
    /\ daily[1].n_XLE = <<1>>
    /\ daily[1].sent_index_XLE[1] < 0

(***************************************************************************)
(* C8.  For every threshold m and every aggregate row of every aggregator: *)
(* when the row's headline count is below m, its averages, its sentiment   *)
(* index and its embedding average are missing while n_XLE is still the    *)
(* true count; when the count is at least m, none of them is missing.      *)
(***************************************************************************)
\* the true number of sector headlines behind an aggregate row on date d
TrueCount(d) ==
    IF Aggregated THEN RemappedTo(d) ELSE Cardinality(FlaggedRowsOn(d))

\* the aggregate value columns a row has
ValueColsOf(row) ==
    DOMAIN row \cap {"avg_positive_XLE", "avg_neutral_XLE", "avg_negative_XLE",
                     "sent_index_XLE", "emb_0", "emb_0_XLE"}

Suppression(row) ==
    TrueCount(row.Date) >= 1 =>
        /\ row.n_XLE = <<TrueCount(row.Date)>>
        /\ TrueCount(row.Date) < min_headlines =>
              \A c \in ValueColsOf(row) : row[c] = Null
        /\ TrueCount(row.Date) >= min_headlines =>
              \A c \in ValueColsOf(row) : row[c] # Null

C8_SuppressionKeepsCount ==
    /\ pc = "daily" => \A i \in DOMAIN daily : Suppression(daily[i])
    /\ pc \in {"v2", "v3", "v4"} =>
          \A i \in DOMAIN out :
              /\ Suppression(out[i])
              /\ pc \in {"v2", "v4"} => ValueColsOf(out[i]) \cap {"emb_0", "emb_0_XLE"} # {}

\* under the embedding variant of the weekend-aggregated policy, a trading
\* day with one sector headline, from the weekend, below a threshold of two
C8_Witness ==
    /\ pc = "v4"
    /\ min_headlines = 2
    /\ \E i \in DOMAIN out :
          /\ out[i].n_XLE = <<1>>
          /\ out[i].avg_positive_XLE = Null
          /\ out[i].sent_index_XLE = Null
          /\ out[i].emb_0 = Null
          /\ \E k \in DOMAIN news_td :
                news_td[k].XLE = 1 /\ news_td[k].Date < out[i].Date
                /\ news_td[k].TradingDate = out[i].Date

(***************************************************************************)
(* C10.  With weights of non-zero sum and length k,                       *)
(* add_weighted_lag_feature writes at each row i >= k-1 the sum of         *)
(* values[i-k+1+j] * weights[j]                                            *)
(* over j in 0..k-1 divided by the sum of the weights, a missing value at  *)
(* every earlier row, and the value at row i does not depend on values     *)
(* after row i.  Rows are numbered from 1 here, so row i >= k.             *)
(***************************************************************************)
RECURSIVE WeightedSum(_, _, _)
WeightedSum(i, k, j) ==
    IF j = 0 THEN 0
    ELSE lag_values[i - k + j] * lag_weights[j] + WeightedSum(i, k, j - 1)

C10_TrailingWeightedAverage ==
    (pc = "lag_done" /\ SumSeq(lag_weights) # 0) =>
        LET k == Len(lag_weights)
        IN  /\ Len(lag_result) = Len(lag_values)
            /\ \A i \in DOMAIN lag_result :
                  /\ i < k => lag_result[i] = Null
                  /\ i >= k =>
                        /\ lag_result[i] = Rat(WeightedSum(i, k, k), SumSeq(lag_weights))
                        /\ lag_result[i] =
                              add_weighted_lag_feature(SubSeq(lag_values, 1, i),
                                                       lag_weights)[i]

\* the example of the spec: weights [1,2,3] on [10,20,30,40] give 140/6 and 200/6
C10_Witness ==
    /\ pc = "lag_done"
    /\ lag_weights = <<1, 2, 3>>
    /\ lag_values = <<10, 20, 30, 40>>
    /\ lag_result = <<Null, Null, <<70, 3>>, <<100, 3>>>>

(***************************************************************************)
(* C11.  add_weighted_lag_feature with weights whose sum is zero, an empty *)
(* weight sequence included, fails and neither adds nor overwrites the     *)
(* output column: no call with such weights completes.                     *)
(***************************************************************************)
C11_ZeroSumWeightsRejected ==
    SumSeq(lag_weights) = 0 => (pc # "lag_done" /\ lag_result = <<>>)

(***************************************************************************)
(* C12.  The Return Series Builder fails on a price input with two rows of *)
(* the same date: no Return and no Return_next_day is ever produced from   *)
(* such an input.                                                          *)
(***************************************************************************)
HasRepeatedDate(t) == \E i, j \in DOMAIN t : i # j /\ t[i].Date = t[j].Date

C12_RepeatedDatesRejected ==
    HasRepeatedDate(raw) => (etf = <<>> /\ prices = <<>>)

(***************************************************************************)
(* C13.  For a price input with one row per date, in any order, the Return *)
(* preprocess_file stores for a date other than the earliest is the price  *)
(* of that date over the price of the chronologically preceding date,      *)
(* minus one, its Sign the sign of the price difference, and the earliest  *)
(* date has a null Return.                                                 *)
(***************************************************************************)
\* the rows of t on the latest date strictly before d
PredecessorRows(t, d) ==
    {j \in DOMAIN t : /\ t[j].Date < d
                      /\ \A k \in DOMAIN t : t[k].Date < d => t[k].Date <= t[j].Date}

C13_ReturnOverPrecedingDate ==
    (pc = "preprocessed" /\ ~HasRepeatedDate(raw)) =>
        \A i \in DOMAIN etf :
            /\ PredecessorRows(raw, etf[i].Date) = {} => etf[i].Return = Null
            /\ \A j \in PredecessorRows(raw, etf[i].Date) :
                  /\ etf[i].Return = Rat(etf[i].Price[1] - raw[j].Price, raw[j].Price)
                  /\ etf[i].Sign = <<Sgn(etf[i].Price[1] - raw[j].Price)>>

(***************************************************************************)
(* C14.  The headline-level merge of build_all_sector_datasets never fans  *)
(* out: a run that writes the output file writes exactly one row per input *)
(* headline, whatever the price file holds.                                *)
(***************************************************************************)
C14_OneRowPerHeadline ==
    pc = "built" => Len(data) = Len(news)

Extends(t, before, col) ==
    /\ Len(t) = Len(before)
    /\ \A i \in DOMAIN t :
          /\ DOMAIN t[i] = DOMAIN before[i] \cup {col}
          /\ \A c \in DOMAIN before[i] : t[i][c] = before[i][c]

Aligned(t) ==
    \A i \in DOMAIN t : \A j \in NextPricedRows(t, i) :
        t[i].Price # Null =>
            /\ t[i].Return_next_day # Null
            /\ t[j].Return # Null
            /\ ~reaches(abs_difference(t[i].Return_next_day, t[j].Return))

NoCountedMismatch ==
    /\ report.friday_mismatches = 0
    /\ report.holiday_mismatches = 0
    /\ report.random_mismatches = 0

C16_PassedOnlyIfAligned ==
    /\ (pc \in {"verified", "verified_all"} /\ report.verdict = "passed") =>
          (Aligned(data) /\ NoCountedMismatch)
    /\ (pc = "verified_all" /\ results.XLE = <<"PASS">>) =>
          (Aligned(data) /\ NoCountedMismatch)

====
